---- MODULE Spec2Model ----
(***************************************************************************)
(* State-machine model of the paginated scraper, src/scraper.js:           *)
(* scrapeMultipleStores (the orchestrator), scrapeStore (pagination),      *)
(* waitForSecurityCheck (the challenge gate), extractItemsFromPage (card   *)
(* scan), loadCookies / saveCookies (the session cookie cache).            *)
(* Every awaited browser operation is a step that either returns or        *)
(* throws; the site's rendering is the environment's choice.               *)
(***************************************************************************)
EXTENDS Integers, Sequences, FiniteSets, TLC

(* ------------------------------------------------------------------ *)
(* Program constants                                                   *)
(* ------------------------------------------------------------------ *)
maxAttempts == 12
maxPages == 50
FullPage == 20
MinCards == 2
CookieMaxAge == 50 * 60 * 1000
NumSelectors == 3

(* ------------------------------------------------------------------ *)
(* Bounds of the model                                                 *)
(* ------------------------------------------------------------------ *)
\* longest store list handed to scrapeMultipleStores
MaxStores == 2
\* number of distinct names a small store's site can render
SmallCatalog == 6
\* the clock reading (epoch millis) at which the run starts
StartTime == 10000000

\* catalogue of the one deep store: enough names to fill every page up to
\* the page cap and one page beyond it
DeepCatalog == (maxPages + 1) * FullPage

(* ------------------------------------------------------------------ *)
(* Inputs: stores, persisted cookie jars                               *)
(* ------------------------------------------------------------------ *)
\* A store is its name plus what its site is able to render: the number of
\* cards of a full catalogue page, the number of cards of a partial page and
\* the number of distinct names it holds.
SmallStore(n) == [name |-> n, perPage |-> 3, partial |-> 1, catalog |-> SmallCatalog]

DeepStores ==
    { [name |-> 0, perPage |-> FullPage, partial |-> FullPage - 1, catalog |-> DeepCatalog],
      [name |-> -1, perPage |-> 25, partial |-> 10, catalog |-> 60] }

\* the store lists: up to MaxStores small stores, named 1, 2, ...
SmallLists == { [k \in 1..n |-> SmallStore(k)] : n \in 0..MaxStores }

\* the store lists of one deep store
DeepLists == { <<s>> : s \in DeepStores }

NoJar == [kind |-> "absent"]
CorruptJar == [kind |-> "corrupt"]
JarAges == { CookieMaxAge - 1, CookieMaxAge, CookieMaxAge + 1 }
InitialJars ==
    { NoJar, CorruptJar }
      \cup { [kind |-> "jar", timestamp |-> StartTime - a, cookies |-> {"saved"}] : a \in JarAges }

\* the runs: a list of small stores with any cookie file, or one deep store
\* without a cookie file
Inputs ==
    (SmallLists \X InitialJars) \cup (DeepLists \X { NoJar })

\* what main is started with: the mode its arguments select (allNoConfig is
\* --all without a stores.json), the store list it builds, the cookie file
Runs ==
    { <<"all", input[1], input[2]>> : input \in SmallLists \X InitialJars }
      \cup { <<IF s.name = 0 THEN "url" ELSE "default", <<s>>, NoJar>> : s \in DeepStores }
      \cup { <<"auth", <<>>, NoJar>>, <<"allNoConfig", <<>>, NoJar>> }

(* ------------------------------------------------------------------ *)
(* What a page can render                                              *)
(* ------------------------------------------------------------------ *)
\* A card element, by what reading it gives: a card whose text has a name
\* line (names are numbered), a card whose text is under 5 characters, a
\* card without any line that qualifies as a name, a card whose read throws.
NamedCard(n) == [kind |-> "named", name |-> n]
ShortCard == [kind |-> "short", name |-> 0]
NamelessCard == [kind |-> "nameless", name |-> 0]
BrokenCard == [kind |-> "broken", name |-> 0]

\* len cards naming start, start+1, ...
Block(start, len) == [k \in 1..len |-> NamedCard(start + k - 1)]

\* the same cards among cards that give no item, the first one rendered twice
Decorate(c) ==
    <<ShortCard>> \o c \o (IF Len(c) > 0 THEN <<c[1]>> ELSE <<>>)
                  \o <<NamelessCard, BrokenCard>>

Few(c) == SubSeq(c, 1, IF Len(c) < MinCards THEN Len(c) ELSE MinCards)

\* the elements each of the three card selectors matches, for a card list c
Layouts(c) ==
    { <<c, <<>>, <<>>>>,
      <<<<>>, c, <<>>>>,
      <<<<>>, <<>>, c>>,
      <<Few(c), c, c>>,
      <<Few(c), <<>>, Few(c)>> }

PageSizes(store) == { 0, store.partial, store.perPage }

\* the documents page.$$ may be looking at when the store has already
\* yielded n names: a block of the catalogue starting at the first name, at
\* the last name seen or at the first name not yet seen
Renderings(store, n) ==
    UNION { UNION { Layouts(Block(start, len)) \cup Layouts(Decorate(Block(start, len)))
                    : len \in { l \in PageSizes(store) : start + l - 1 <= store.catalog } }
            : start \in { 1, n + 1 } \cup (IF n > 0 THEN { n } ELSE {}) }

(* ------------------------------------------------------------------ *)
(* extractItemsFromPage                                                *)
(* ------------------------------------------------------------------ *)
\* lines 119-125: the selector whose matches end up in `cards`: the first
\* one with more than 2 matches, else the last one tried
RECURSIVE CardsSelector(_, _)
CardsSelector(dom, k) ==
    IF Len(dom[k]) > MinCards \/ k = NumSelectors THEN k ELSE CardsSelector(dom, k + 1)

\* lines 116, 121-123: workingSelector changes only when a selector matched
\* more than 2 elements
WorkingSelector(dom) ==
    LET k == CardsSelector(dom, 1)
    IN  IF Len(dom[k]) > MinCards THEN k ELSE 1

\* lines 131-200: the card loop, from index idx (1-based) on; r is the
\* pageItems / seenNames pair built so far
RECURSIVE ScanCardsNoSeenCheck(_, _, _, _, _)
ScanCardsNoSeenCheck(current, count, idx, storeName, r) ==
    IF idx > count \/ idx > Len(current) THEN r
    ELSE LET card == current[idx]
         IN  IF card.kind # "named"
             THEN ScanCardsNoSeenCheck(current, count, idx + 1, storeName, r)
             ELSE ScanCardsNoSeenCheck(current, count, idx + 1, storeName,
                     [pageItems |-> Append(r.pageItems,
                                           [name |-> card.name, store_name |-> storeName]),
                      seenNames |-> r.seenNames \cup { card.name }])

RECURSIVE ScanCards(_, _, _, _, _)
ScanCards(current, count, idx, storeName, r) ==
    IF idx > count \/ idx > Len(current) THEN r
    ELSE LET card == current[idx]
         IN  IF card.kind # "named" \/ card.name \in r.seenNames
             THEN ScanCards(current, count, idx + 1, storeName, r)
             ELSE ScanCards(current, count, idx + 1, storeName,
                     [pageItems |-> Append(r.pageItems,
                                           [name |-> card.name, store_name |-> storeName]),
                      seenNames |-> r.seenNames \cup { card.name }])

\* lines 131-136: the elements the card loop reads: those of the working
\* selector, as many as `cards` has
ReadCards(dom) ==
    LET current == dom[WorkingSelector(dom)]
        count == Len(dom[CardsSelector(dom, 1)])
    IN  SubSeq(current, 1, IF count < Len(current) THEN count ELSE Len(current))

\* the number of cards with a name among those the card loop reads
NamedRead(dom) ==
    LET current == dom[WorkingSelector(dom)]
        count == Len(dom[CardsSelector(dom, 1)])
    IN  Cardinality({ k \in 1..Len(current) : k <= count /\ current[k].kind = "named" })

extractItemsFromPagePerPageSeen(dom, seen, storeName) ==
    LET cards == dom[CardsSelector(dom, 1)]
        r == ScanCards(dom[WorkingSelector(dom)], Len(cards), 1, storeName,
                       [pageItems |-> <<>>, seenNames |-> {}])
    IN  IF Len(cards) = 0 THEN [pageItems |-> <<>>, seenNames |-> seen]
        ELSE [pageItems |-> r.pageItems, seenNames |-> seen \cup r.seenNames]

extractItemsFromPageForgetsSeen(dom, seen, storeName) ==
    LET cards == dom[CardsSelector(dom, 1)]
        none == [pageItems |-> <<>>, seenNames |-> seen]
    IN  IF Len(cards) = 0 THEN none
        ELSE [pageItems |-> ScanCards(dom[WorkingSelector(dom)], Len(cards), 1,
                                      storeName, none).pageItems,
              seenNames |-> seen]

\* lines 114-203: the items of the page and the names seen afterwards
extractItemsFromPage(dom, seen, storeName) ==
    LET cards == dom[CardsSelector(dom, 1)]
        none == [pageItems |-> <<>>, seenNames |-> seen]
    IN  IF Len(cards) = 0 THEN none
        ELSE ScanCards(dom[WorkingSelector(dom)], Len(cards), 1, storeName, none)

(* ------------------------------------------------------------------ *)
(* loadCookies                                                         *)
(* ------------------------------------------------------------------ *)
\* lines 48-59: "throw" stands for JSON.parse throwing, "null" for null
loadCookiesInclusive(jar, now) ==
    IF jar.kind = "absent" THEN [kind |-> "null"]
    ELSE IF jar.kind = "corrupt" THEN [kind |-> "throw"]
    ELSE IF now - jar.timestamp <= CookieMaxAge
         THEN [kind |-> "cookies", cookies |-> jar.cookies]
         ELSE [kind |-> "null"]

loadCookies(jar, now) ==
    IF jar.kind = "absent" THEN [kind |-> "null"]
    ELSE IF jar.kind = "corrupt" THEN [kind |-> "throw"]
    ELSE IF now - jar.timestamp < CookieMaxAge
         THEN [kind |-> "cookies", cookies |-> jar.cookies]
         ELSE [kind |-> "null"]

(* ------------------------------------------------------------------ *)
(* State                                                               *)
(* ------------------------------------------------------------------ *)
VARIABLES
    pc,            \* the position of the run
    stores,        \* the argument of scrapeMultipleStores
    jar,           \* the content of COOKIES_FILE
    now,           \* Date.now()
    browser,       \* "none", "open" or "closed"
    closeCount,    \* number of calls of browser.close()
    savedCookies,  \* scrapeMultipleStores: result of loadCookies()
    ctxCookies,    \* the cookies held by the browser context
    i,             \* scrapeMultipleStores: loop index, counted from 1
    allItems,      \* scrapeMultipleStores: allItems
    cookiesSaved,  \* scrapeMultipleStores: cookiesSaved
    saveCount,     \* number of writes of COOKIES_FILE in this run
    pending,       \* an exception is in flight while the finally block runs
    outcome,       \* "running", "returned" or "threw"
    items,         \* scrapeStore: items
    seenNames,     \* scrapeStore: seenNames
    pageNum,       \* scrapeStore: pageNum
    navLog,        \* page numbers passed to page.goto by this scrapeStore call
    pageLog,       \* per extracted page: its number, the navigations so far,
                   \* pageItems.length, newItems
    statusLog,     \* the [Status] lines written by this scrapeStore call
    errLog,        \* the [Error] lines and the navigation [Warning] written by
                   \* this scrapeStore call
    reportedPages, \* the page count of the final [Progress] line, -1 if none
    gate,          \* waitForSecurityCheck: attempts, what it saw and did; kept
                   \* until the step that follows the extraction of page 1
    lastNamed,     \* the number of named cards the card loop has just read,
                   \* kept until the step that follows the extraction
    mode,          \* main: what the command line selects
    stdout,        \* the arrays written to standard output
    exitCode,      \* the exit status of the process, -1 while it runs
    returned,      \* per scrapeStore call that returned: the store's name and
                   \* the list it returned
    modal,         \* the card loop of the modal-click scrapeStore
    probe          \* a function examined on its own: its input and results

mainVars == <<mode, stdout, exitCode>>
orchVars == <<mainVars, returned, stores, jar, now, browser, closeCount, savedCookies, ctxCookies,
              i, allItems, cookiesSaved, saveCount, pending, outcome>>
storeVars == <<items, seenNames, pageNum, navLog, pageLog, statusLog, errLog,
               reportedPages>>
vars == <<pc, orchVars, storeVars, gate, lastNamed, modal, probe>>

DELAY_BETWEEN_STORES == 5000

NoGate == [attempts |-> 0, inspections |-> 0, verifying |-> 0, failed |-> 0,
           humans |-> 0, reloads |-> 0, result |-> "none"]

\* no function is under examination on its own
NoProbe == [kind |-> "none"]

\* the card loop of the modal-click scrapeStore before it starts: cards.length,
\* cardIndex (1-based), the elements the working selector matches, the name
\* read from the current card, whether a dialog is open, how many dialogs
\* were opened, whether every check of the gate read a verification text
NoModal == [count |-> 0, cardIndex |-> 0, dom |-> <<>>, name |-> 0, dialog |-> FALSE,
            opened |-> 0, stuck |-> FALSE]

Init ==
    /\ pc = "main"
    /\ \E run \in Runs : mode = run[1] /\ stores = run[2] /\ jar = run[3]
    /\ stdout = <<>>
    /\ exitCode = -1
    /\ returned = <<>>
    /\ modal = NoModal
    /\ probe = NoProbe
    /\ now = StartTime
    /\ browser = "none"
    /\ closeCount = 0
    /\ savedCookies = [kind |-> "null"]
    /\ ctxCookies = {}
    /\ i = 1
    /\ allItems = <<>>
    /\ cookiesSaved = FALSE
    /\ saveCount = 0
    /\ pending = FALSE
    /\ outcome = "running"
    /\ items = <<>>
    /\ seenNames = {}
    /\ pageNum = 1
    /\ navLog = <<>>
    /\ pageLog = <<>>
    /\ statusLog = <<>>
    /\ errLog = {}
    /\ reportedPages = -1
    /\ gate = NoGate
    /\ lastNamed = 0

\* the runs examined for termination: the cookie file, which no loop depends
\* on, varies only for the store lists of at most one store
LiveRuns == { run \in Runs : Len(run[2]) <= 1 \/ run[3] = NoJar }

LiveInit ==
    /\ pc = "main"
    /\ \E run \in LiveRuns : mode = run[1] /\ stores = run[2] /\ jar = run[3]
    /\ stdout = <<>>
    /\ exitCode = -1
    /\ returned = <<>>
    /\ modal = NoModal
    /\ probe = NoProbe
    /\ now = StartTime
    /\ browser = "none"
    /\ closeCount = 0
    /\ savedCookies = [kind |-> "null"]
    /\ ctxCookies = {}
    /\ i = 1
    /\ allItems = <<>>
    /\ cookiesSaved = FALSE
    /\ saveCount = 0
    /\ pending = FALSE
    /\ outcome = "running"
    /\ items = <<>>
    /\ seenNames = {}
    /\ pageNum = 1
    /\ navLog = <<>>
    /\ pageLog = <<>>
    /\ statusLog = <<>>
    /\ errLog = {}
    /\ reportedPages = -1
    /\ gate = NoGate
    /\ lastNamed = 0

(* ------------------------------------------------------------------ *)
(* main and authenticate, lines 345-422                                *)
(* ------------------------------------------------------------------ *)
MainIgnoresMissingConfig ==
    /\ pc = "main"
    /\ pc' = IF mode = "auth" THEN "authenticate" ELSE "launch"
    /\ UNCHANGED <<probe, modal, mainVars, returned, stores, jar, now, browser, closeCount,
                   savedCookies, ctxCookies, i, allItems, cookiesSaved, saveCount,
                   pending, outcome, storeVars, gate, lastNamed>>

\* lines 383-413: the mode selection; process.exit(1) when --all finds no
\* stores.json
Main ==
    /\ pc = "main"
    /\ IF mode = "auth"
       THEN pc' = "authenticate" /\ UNCHANGED exitCode
       ELSE IF mode = "allNoConfig"
       THEN pc' = "exited" /\ exitCode' = 1
       ELSE pc' = "launch" /\ UNCHANGED exitCode
    /\ UNCHANGED <<probe, modal, mode, stdout, returned, stores, jar, now, browser, closeCount,
                   savedCookies, ctxCookies, i, allItems, cookiesSaved, saveCount,
                   pending, outcome, storeVars, gate, lastNamed>>

\* lines 345-381 and 388-389: the manual verification in a browser of its
\* own; it saves the cookies when the check was seen to pass, and an
\* exception (before or after the save) ends the process by lines 419-422
Authenticate ==
    /\ pc = "authenticate"
    /\ \E passed \in BOOLEAN :
          IF passed
          THEN /\ jar' = [kind |-> "jar", timestamp |-> now, cookies |-> {"session"}]
               /\ saveCount' = saveCount + 1
          ELSE UNCHANGED <<jar, saveCount>>
    /\ \/ outcome' = "returned" /\ exitCode' = 0
       \/ outcome' = "threw" /\ exitCode' = 1
    /\ pc' = "exited"
    /\ UNCHANGED <<probe, modal, mode, stdout, returned, stores, now, browser, closeCount,
                   savedCookies, ctxCookies, i, allItems, cookiesSaved,
                   pending, storeVars, gate, lastNamed>>

MainEndAlwaysPrints ==
    /\ pc = "done"
    /\ stdout' = Append(stdout, allItems)
    /\ exitCode' = IF outcome = "returned" THEN 0 ELSE 1
    /\ pc' = "exited"
    /\ UNCHANGED <<probe, modal, mode, returned, stores, jar, now, browser, closeCount,
                   savedCookies, ctxCookies, i, allItems, cookiesSaved, saveCount,
                   pending, outcome, storeVars, gate, lastNamed>>

\* lines 415-422: scrapeMultipleStores has returned or thrown
MainEnd ==
    /\ pc = "done"
    /\ IF outcome = "returned"
       THEN /\ stdout' = Append(stdout, allItems)
            /\ exitCode' = 0
       ELSE /\ exitCode' = 1
            /\ UNCHANGED stdout
    /\ pc' = "exited"
    /\ UNCHANGED <<probe, modal, mode, returned, stores, jar, now, browser, closeCount,
                   savedCookies, ctxCookies, i, allItems, cookiesSaved, saveCount,
                   pending, outcome, storeVars, gate, lastNamed>>

(* ------------------------------------------------------------------ *)
(* scrapeMultipleStores, lines 277-343                                 *)
(* ------------------------------------------------------------------ *)
\* an exception leaves scrapeMultipleStores from outside its try block
Escape ==
    /\ pc' = "done"
    /\ outcome' = "threw"

\* an exception inside the try block: the finally block runs with it pending
ToFinally ==
    /\ pc' = "close"
    /\ pending' = TRUE

\* line 281
Launch ==
    /\ pc = "launch"
    /\ \/ /\ browser' = "open"
          /\ pc' = "newContext"
          /\ UNCHANGED outcome
       \/ /\ Escape
          /\ UNCHANGED browser
    /\ UNCHANGED <<probe, modal, mainVars, returned, stores, jar, now, closeCount, savedCookies, ctxCookies, i, allItems,
                   cookiesSaved, saveCount, pending, storeVars, gate, lastNamed>>

\* line 296
NewContext ==
    /\ pc = "newContext"
    /\ \/ /\ pc' = "loadCookies"
          /\ UNCHANGED outcome
       \/ Escape
    /\ UNCHANGED <<probe, modal, mainVars, returned, stores, jar, now, browser, closeCount, savedCookies, ctxCookies, i,
                   allItems, cookiesSaved, saveCount, pending, storeVars, gate, lastNamed>>

\* lines 304-305
LoadCookies ==
    /\ pc = "loadCookies"
    /\ LET r == loadCookies(jar, now)
       IN  IF r.kind = "throw"
           THEN Escape /\ UNCHANGED savedCookies
           ELSE /\ savedCookies' = r
                /\ pc' = IF r.kind = "cookies" THEN "addCookies" ELSE "addInitScript"
                /\ UNCHANGED outcome
    /\ UNCHANGED <<probe, modal, mainVars, returned, stores, jar, now, browser, closeCount, ctxCookies, i, allItems,
                   cookiesSaved, saveCount, pending, storeVars, gate, lastNamed>>

\* line 306
AddCookies ==
    /\ pc = "addCookies"
    /\ \/ /\ ctxCookies' = ctxCookies \cup savedCookies.cookies
          /\ pc' = "addInitScript"
          /\ UNCHANGED outcome
       \/ /\ Escape
          /\ UNCHANGED ctxCookies
    /\ UNCHANGED <<probe, modal, mainVars, returned, stores, jar, now, browser, closeCount, savedCookies, i, allItems,
                   cookiesSaved, saveCount, pending, storeVars, gate, lastNamed>>

\* line 310
AddInitScript ==
    /\ pc = "addInitScript"
    /\ \/ /\ pc' = "newPage"
          /\ UNCHANGED outcome
       \/ Escape
    /\ UNCHANGED <<probe, modal, mainVars, returned, stores, jar, now, browser, closeCount, savedCookies, ctxCookies, i,
                   allItems, cookiesSaved, saveCount, pending, storeVars, gate, lastNamed>>

\* lines 314-315
NewPage ==
    /\ pc = "newPage"
    /\ \/ /\ pc' = "forTest"
          /\ UNCHANGED outcome
       \/ Escape
    /\ UNCHANGED <<probe, modal, mainVars, returned, stores, jar, now, browser, closeCount, savedCookies, ctxCookies, i,
                   allItems, cookiesSaved, saveCount, pending, storeVars, gate, lastNamed>>

\* lines 318-322: the loop test; the call of scrapeStore or the normal exit
\* of the try block
ForTest ==
    /\ pc = "forTest"
    /\ pc' = IF i <= Len(stores) THEN "scrapeStore" ELSE "close"
    /\ UNCHANGED <<probe, modal, orchVars, storeVars, gate, lastNamed>>

StoreReturnedPrepends ==
    /\ pc = "return"
    /\ allItems' = items \o allItems
    /\ returned' = Append(returned, [store |-> stores[i].name, items |-> items])
    /\ pc' = IF Len(items) > 0 /\ ~cookiesSaved THEN "cookies" ELSE "pace"
    /\ UNCHANGED <<probe, modal, mainVars, stores, jar, now, browser, closeCount,
                   savedCookies, ctxCookies, i, cookiesSaved, saveCount, pending,
                   outcome, storeVars, gate, lastNamed>>

StoreReturnedAlwaysSaves ==
    /\ pc = "return"
    /\ allItems' = allItems \o items
    /\ returned' = Append(returned, [store |-> stores[i].name, items |-> items])
    /\ pc' = IF Len(items) > 0 THEN "cookies" ELSE "pace"
    /\ UNCHANGED <<probe, modal, mainVars, stores, jar, now, browser, closeCount,
                   savedCookies, ctxCookies, i, cookiesSaved, saveCount, pending,
                   outcome, storeVars, gate, lastNamed>>

\* lines 322-326: scrapeStore has returned
StoreReturned ==
    /\ pc = "return"
    /\ allItems' = allItems \o items
    /\ returned' = Append(returned, [store |-> stores[i].name, items |-> items])
    /\ pc' = IF Len(items) > 0 /\ ~cookiesSaved THEN "cookies" ELSE "pace"
    /\ UNCHANGED <<probe, modal, mainVars, stores, jar, now, browser, closeCount,
                   savedCookies, ctxCookies, i, cookiesSaved, saveCount, pending,
                   outcome, storeVars, gate, lastNamed>>

\* line 327
ContextCookies ==
    /\ pc = "cookies"
    /\ \/ /\ pc' = "saveCookies"
          /\ UNCHANGED pending
       \/ ToFinally
    /\ UNCHANGED <<probe, modal, mainVars, returned, stores, jar, now, browser, closeCount, savedCookies, ctxCookies, i,
                   allItems, cookiesSaved, saveCount, outcome, storeVars, gate, lastNamed>>

\* lines 328-329 and 62-68: a write that throws may leave the file as it
\* was or truncated
SaveCookies ==
    /\ pc = "saveCookies"
    /\ saveCount' = saveCount + 1
    /\ \/ /\ jar' = [kind |-> "jar", timestamp |-> now, cookies |-> ctxCookies]
          /\ cookiesSaved' = TRUE
          /\ pc' = "pace"
          /\ UNCHANGED pending
       \/ /\ jar' \in { jar, CorruptJar }
          /\ ToFinally
          /\ UNCHANGED cookiesSaved
    /\ UNCHANGED <<probe, modal, mainVars, returned, stores, now, browser, closeCount, savedCookies, ctxCookies, i,
                   allItems, outcome, storeVars, gate, lastNamed>>

\* lines 332-335 and the loop increment of line 318
Pace ==
    /\ pc = "pace"
    /\ IF i < Len(stores)
       THEN \/ /\ now' = now + DELAY_BETWEEN_STORES
               /\ i' = i + 1
               /\ pc' = "forTest"
               /\ UNCHANGED pending
            \/ /\ ToFinally
               /\ UNCHANGED <<now, i>>
       ELSE /\ i' = i + 1
            /\ pc' = "forTest"
            /\ UNCHANGED <<now, pending>>
    /\ UNCHANGED <<probe, modal, mainVars, returned, stores, jar, browser, closeCount, savedCookies, ctxCookies,
                   allItems, cookiesSaved, saveCount, outcome, storeVars, gate, lastNamed>>

\* lines 337-342: the finally block, then the return or the rethrow; a
\* close() that throws may or may not have closed the browser
Close ==
    /\ pc = "close"
    /\ closeCount' = closeCount + 1
    /\ \/ /\ browser' = "closed"
          /\ outcome' = IF pending THEN "threw" ELSE "returned"
       \/ /\ browser' \in { "open", "closed" }
          /\ outcome' = "threw"
    /\ pc' = "done"
    /\ UNCHANGED <<probe, modal, mainVars, returned, stores, jar, now, savedCookies, ctxCookies, i, allItems,
                   cookiesSaved, saveCount, pending, storeVars, gate, lastNamed>>

(* ------------------------------------------------------------------ *)
(* scrapeStore, lines 70-275                                           *)
(* ------------------------------------------------------------------ *)
store == stores[i]

Status(phase, current, total) == [phase |-> phase, current |-> current, total |-> total]

ToCatchEscapes == pc' = "close"

\* an exception inside the try block of lines 205-272
ToCatch == pc' = "catch"

\* lines 71-72 and 207-213
ScrapeStoreStart ==
    /\ pc = "scrapeStore"
    /\ items' = <<>>
    /\ seenNames' = {}
    /\ pageNum' = 1
    /\ navLog' = <<>>
    /\ pageLog' = <<>>
    /\ statusLog' = << Status("loading", 0, -1) >>
    /\ errLog' = {}
    /\ reportedPages' = -1
    /\ gate' = NoGate
    /\ lastNamed' = 0
    /\ pc' = "while"
    /\ UNCHANGED <<probe, modal, orchVars>>

WhileTestNoCap ==
    /\ pc = "while"
    /\ pc' = "goto"
    /\ UNCHANGED <<probe, modal, orchVars, storeVars, gate, lastNamed>>

WhileTestLateCap ==
    /\ pc = "while"
    /\ pc' = IF pageNum <= maxPages + 1 THEN "goto" ELSE "complete"
    /\ UNCHANGED <<probe, modal, orchVars, storeVars, gate, lastNamed>>

\* line 215
WhileTest ==
    /\ pc = "while"
    /\ pc' = IF pageNum <= maxPages THEN "goto" ELSE "complete"
    /\ UNCHANGED <<probe, modal, orchVars, storeVars, gate, lastNamed>>

GotoIgnoresFailure ==
    /\ pc = "goto"
    /\ navLog' = Append(navLog, pageNum)
    /\ \/ /\ pc' = "humanBehavior"
          /\ ctxCookies' = ctxCookies \cup {"session"}
          /\ UNCHANGED errLog
       \/ /\ pc' = "humanBehavior"
          /\ errLog' = errLog \cup {"navigation"}
          /\ UNCHANGED ctxCookies
    /\ UNCHANGED <<probe, modal, mainVars, returned, stores, jar, now, browser, closeCount, savedCookies, i, allItems,
                   cookiesSaved, saveCount, pending, outcome,
                   items, seenNames, pageNum, pageLog, statusLog, reportedPages,
                   gate, lastNamed>>

\* lines 216-224: a failed navigation is caught on the spot and ends the loop
Goto ==
    /\ pc = "goto"
    /\ navLog' = Append(navLog, pageNum)
    /\ \/ /\ pc' = "humanBehavior"
          /\ ctxCookies' = ctxCookies \cup {"session"}
          /\ UNCHANGED errLog
       \/ /\ pc' = "complete"
          /\ errLog' = errLog \cup {"navigation"}
          /\ UNCHANGED ctxCookies
    /\ UNCHANGED <<probe, modal, mainVars, returned, stores, jar, now, browser, closeCount, savedCookies, i, allItems,
                   cookiesSaved, saveCount, pending, outcome,
                   items, seenNames, pageNum, pageLog, statusLog, reportedPages,
                   gate, lastNamed>>

\* line 225 and lines 34-45
HumanBehavior ==
    /\ pc = "humanBehavior"
    /\ \/ pc' = "settle"
       \/ ToCatch
    /\ UNCHANGED <<probe, modal, orchVars, storeVars, gate, lastNamed>>

\* lines 226-229
Settle ==
    /\ pc = "settle"
    /\ \/ pc' = IF pageNum = 1 THEN "gateTest" ELSE "extract"
       \/ ToCatch
    /\ UNCHANGED <<probe, modal, orchVars, storeVars, gate, lastNamed>>

GateTestOffByOne ==
    /\ pc = "gateTest"
    /\ IF gate.attempts <= maxAttempts
       THEN /\ pc' = "gateInspect"
            /\ UNCHANGED <<gate, errLog>>
       ELSE /\ gate' = [gate EXCEPT !.result = "fail"]
            /\ errLog' = errLog \cup {"security"}
            /\ pc' = "complete"
    /\ UNCHANGED <<probe, modal, orchVars, items, seenNames, pageNum, navLog, pageLog, statusLog,
                   reportedPages, lastNamed>>

GateTestNoBreak ==
    /\ pc = "gateTest"
    /\ IF gate.attempts < maxAttempts
       THEN /\ pc' = "gateInspect"
            /\ UNCHANGED <<gate, errLog>>
       ELSE /\ gate' = [gate EXCEPT !.result = "fail"]
            /\ errLog' = errLog \cup {"security"}
            /\ pc' = "extract"
    /\ UNCHANGED <<probe, modal, orchVars, items, seenNames, pageNum, navLog, pageLog, statusLog,
                   reportedPages, lastNamed>>

\* lines 88 and 110, 230-234: the loop test of waitForSecurityCheck; when it
\* fails the gate returns false and scrapeStore logs the error and breaks
GateTest ==
    /\ pc = "gateTest"
    /\ IF gate.attempts < maxAttempts
       THEN /\ pc' = "gateInspect"
            /\ UNCHANGED <<gate, errLog>>
       ELSE /\ gate' = [gate EXCEPT !.result = "fail"]
            /\ errLog' = errLog \cup {"security"}
            /\ pc' = "complete"
    /\ UNCHANGED <<probe, modal, orchVars, items, seenNames, pageNum, navLog, pageLog, statusLog,
                   reportedPages, lastNamed>>

\* the signals the page text may carry
PageTexts == { [verifying |-> v, failed |-> f] : v, f \in BOOLEAN }

GateInspectFailedFirst ==
    /\ pc = "gateInspect"
    /\ \/ \E text \in PageTexts :
            LET seen == [gate EXCEPT !.inspections = @ + 1,
                                     !.verifying = @ + (IF text.verifying THEN 1 ELSE 0),
                                     !.failed = @ + (IF text.failed /\ ~text.verifying
                                                     THEN 1 ELSE 0)]
            IN  IF text.failed
                THEN /\ gate' = seen
                     /\ pc' = "gateReload"
                ELSE IF text.verifying
                THEN /\ gate' = seen
                     /\ pc' = "gateHuman"
                ELSE /\ gate' = [seen EXCEPT !.result = "pass"]
                     /\ pc' = "postGate"
       \/ /\ gate' = [gate EXCEPT !.inspections = @ + 1]
          /\ ToCatch
    /\ UNCHANGED <<probe, modal, orchVars, storeVars, lastNamed>>

\* lines 89-108: one reading of the page text and the branch it selects
GateInspect ==
    /\ pc = "gateInspect"
    /\ \/ \E text \in PageTexts :
            LET seen == [gate EXCEPT !.inspections = @ + 1]
            IN  IF text.verifying
                THEN /\ gate' = [seen EXCEPT !.verifying = @ + 1]
                     /\ pc' = "gateHuman"
                ELSE IF text.failed
                THEN /\ gate' = [seen EXCEPT !.failed = @ + 1]
                     /\ pc' = "gateReload"
                ELSE /\ gate' = [seen EXCEPT !.result = "pass"]
                     /\ pc' = "postGate"
       \/ /\ gate' = [gate EXCEPT !.inspections = @ + 1]
          /\ ToCatch
    /\ UNCHANGED <<probe, modal, orchVars, storeVars, lastNamed>>

\* lines 93-96
GateHuman ==
    /\ pc = "gateHuman"
    /\ \/ /\ gate' = [gate EXCEPT !.humans = @ + 1, !.attempts = @ + 1]
          /\ pc' = "gateTest"
       \/ /\ gate' = [gate EXCEPT !.humans = @ + 1]
          /\ ToCatch
    /\ UNCHANGED <<probe, modal, orchVars, storeVars, lastNamed>>

\* lines 101-104
GateReload ==
    /\ pc = "gateReload"
    /\ \/ /\ gate' = [gate EXCEPT !.reloads = @ + 1, !.attempts = @ + 1]
          /\ pc' = "gateTest"
       \/ /\ gate' \in { gate, [gate EXCEPT !.reloads = @ + 1] }
          /\ ToCatch
    /\ UNCHANGED <<probe, modal, orchVars, storeVars, lastNamed>>

\* line 235
PostGate ==
    /\ pc = "postGate"
    /\ \/ pc' = "extract"
       \/ ToCatch
    /\ UNCHANGED <<probe, modal, orchVars, storeVars, gate, lastNamed>>

StopsAfterAnyPartial(found, new, page) ==
    \/ found = 0 \/ new = 0
    \/ found < FullPage

StopsAfterPartialOnly(found, new, page) ==
    found < FullPage /\ page > 1

\* lines 248-257: the two stop rules
StopsAfter(found, new, page) ==
    \/ found = 0 \/ new = 0
    \/ found < FullPage /\ page > 1

ExtractCountsSeenCards ==
    /\ pc = "extract"
    /\ \/ \E dom \in Renderings(store, Len(items)) :
            LET r == extractItemsFromPage(dom, seenNames, store.name)
                beforeCount == Len(items)
                after == items \o r.pageItems
                newItems == Len(after) - beforeCount
            IN  /\ items' = after
                /\ seenNames' = r.seenNames
                /\ pageLog' = Append(pageLog, [page |-> pageNum,
                                               navs |-> Len(navLog),
                                               found |-> NamedRead(dom),
                                               new |-> newItems])
                /\ lastNamed' = NamedRead(dom)
                /\ statusLog' = Append(statusLog, Status("loading", Len(after), -1))
                /\ IF StopsAfter(NamedRead(dom), newItems, pageNum)
                   THEN /\ pc' = "complete"
                        /\ UNCHANGED pageNum
                   ELSE /\ pc' = "delay"
                        /\ pageNum' = pageNum + 1
       \/ /\ ToCatch
          /\ UNCHANGED <<items, seenNames, pageNum, pageLog, statusLog, lastNamed>>
    /\ UNCHANGED <<probe, modal, orchVars, navLog, errLog, reportedPages, gate>>

\* lines 238-259: one call of extractItemsFromPage on what the page shows,
\* the bookkeeping, the stop rules and the page increment
Extract ==
    /\ pc = "extract"
    /\ \/ \E dom \in Renderings(store, Len(items)) :
            LET r == extractItemsFromPage(dom, seenNames, store.name)
                beforeCount == Len(items)
                after == items \o r.pageItems
                newItems == Len(after) - beforeCount
            IN  /\ items' = after
                /\ seenNames' = r.seenNames
                /\ pageLog' = Append(pageLog, [page |-> pageNum,
                                               navs |-> Len(navLog),
                                               found |-> Len(r.pageItems),
                                               new |-> newItems])
                /\ lastNamed' = NamedRead(dom)
                /\ statusLog' = Append(statusLog, Status("loading", Len(after), -1))
                /\ IF StopsAfter(Len(r.pageItems), newItems, pageNum)
                   THEN /\ pc' = "complete"
                        /\ UNCHANGED pageNum
                   ELSE /\ pc' = "delay"
                        /\ pageNum' = pageNum + 1
       \/ /\ ToCatch
          /\ UNCHANGED <<items, seenNames, pageNum, pageLog, statusLog, lastNamed>>
    /\ UNCHANGED <<probe, modal, orchVars, navLog, errLog, reportedPages, gate>>

\* lines 262-264
Delay ==
    /\ pc = "delay"
    /\ IF pageNum <= maxPages
       THEN \/ pc' = "while"
            \/ ToCatch
       ELSE pc' = "while"
    /\ gate' = NoGate
    /\ lastNamed' = 0
    /\ UNCHANGED <<probe, modal, orchVars, storeVars>>

\* lines 267-268
Complete ==
    /\ pc = "complete"
    /\ reportedPages' = pageNum - 1
    /\ statusLog' = Append(statusLog, Status("complete", Len(items), Len(items)))
    /\ pc' = "return"
    /\ gate' = NoGate
    /\ lastNamed' = 0
    /\ UNCHANGED <<probe, modal, orchVars, items, seenNames, pageNum, navLog, pageLog, errLog>>

\* lines 270-272
Catch ==
    /\ pc = "catch"
    /\ errLog' = errLog \cup {"caught"}
    /\ pc' = "return"
    /\ gate' = NoGate
    /\ lastNamed' = 0
    /\ UNCHANGED <<probe, modal, orchVars, items, seenNames, pageNum, navLog, pageLog, statusLog,
                   reportedPages>>

(* ------------------------------------------------------------------ *)
(* Specification                                                       *)
(* ------------------------------------------------------------------ *)
(* ------------------------------------------------------------------ *)
(* scrapeStore of the modal-click variant, src/unnamed/part_000 70-307 *)
(* ------------------------------------------------------------------ *)
\* one call of scrapeStore on a page of the one small store
InitModal ==
    /\ pc = "m_goto"
    /\ mode = "url"
    /\ stores = <<SmallStore(1)>>
    /\ jar = NoJar
    /\ stdout = <<>>
    /\ exitCode = -1
    /\ returned = <<>>
    /\ modal = NoModal
    /\ probe = NoProbe
    /\ now = StartTime
    /\ browser = "open"
    /\ closeCount = 0
    /\ savedCookies = [kind |-> "null"]
    /\ ctxCookies = {}
    /\ i = 1
    /\ allItems = <<>>
    /\ cookiesSaved = FALSE
    /\ saveCount = 0
    /\ pending = FALSE
    /\ outcome = "running"
    /\ items = <<>>
    /\ seenNames = {}
    /\ pageNum = 1
    /\ navLog = <<>>
    /\ pageLog = <<>>
    /\ statusLog = <<>>
    /\ errLog = {}
    /\ reportedPages = -1
    /\ gate = NoGate
    /\ lastNamed = 0

\* what the modal-click scrapeStore never writes
modalRest ==
    <<probe, orchVars, seenNames, pageNum, navLog, pageLog, statusLog, errLog,
      reportedPages, lastNamed>>

\* an exception inside the try block of lines 73-304
MToCatch == pc' = "m_catch"

\* line 75
MGoto ==
    /\ pc = "m_goto"
    /\ \/ pc' = "m_human"
       \/ MToCatch
    /\ UNCHANGED <<modalRest, items, gate, modal>>

\* lines 78-79
MHuman ==
    /\ pc = "m_human"
    /\ \/ pc' = "m_gateTest"
       \/ MToCatch
    /\ UNCHANGED <<modalRest, items, gate, modal>>

\* line 86: the loop test; when the attempts are used up the loop just ends
\* and line 113 is next, as it is after the break of line 110
MGateTest ==
    /\ pc = "m_gateTest"
    /\ IF gate.attempts < maxAttempts
       THEN /\ pc' = "m_gateInspect"
            /\ UNCHANGED <<gate, modal>>
       ELSE /\ gate' = [gate EXCEPT !.result = "fail"]
            /\ modal' = [modal EXCEPT !.stuck = (gate.verifying = maxAttempts)]
            /\ pc' = "m_settle"
    /\ UNCHANGED <<modalRest, items>>

\* lines 87-110: one reading of the page text and the branch it selects
MGateInspect ==
    /\ pc = "m_gateInspect"
    /\ \/ \E text \in PageTexts :
            LET seen == [gate EXCEPT !.inspections = @ + 1]
            IN  IF text.verifying
                THEN /\ gate' = [seen EXCEPT !.verifying = @ + 1]
                     /\ pc' = "m_gateHuman"
                ELSE IF text.failed
                THEN /\ gate' = [seen EXCEPT !.failed = @ + 1]
                     /\ pc' = "m_gateReload"
                ELSE /\ gate' = [seen EXCEPT !.result = "pass"]
                     /\ pc' = "m_settle"
       \/ /\ gate' = [gate EXCEPT !.inspections = @ + 1]
          /\ MToCatch
    /\ UNCHANGED <<modalRest, items, modal>>

\* lines 93-96
MGateHuman ==
    /\ pc = "m_gateHuman"
    /\ \/ /\ gate' = [gate EXCEPT !.humans = @ + 1, !.attempts = @ + 1]
          /\ pc' = "m_gateTest"
       \/ /\ gate' = [gate EXCEPT !.humans = @ + 1]
          /\ MToCatch
    /\ UNCHANGED <<modalRest, items, modal>>

\* lines 101-104
MGateReload ==
    /\ pc = "m_gateReload"
    /\ \/ /\ gate' = [gate EXCEPT !.reloads = @ + 1, !.attempts = @ + 1]
          /\ pc' = "m_gateTest"
       \/ /\ gate' \in { gate, [gate EXCEPT !.reloads = @ + 1] }
          /\ MToCatch
    /\ UNCHANGED <<modalRest, items, modal>>

\* line 113: the wait after the gate loop; attempts is not read again
MSettle ==
    /\ pc = "m_settle"
    /\ gate' = [NoGate EXCEPT !.result = gate.result]
    /\ \/ pc' = "m_select"
       \/ MToCatch
    /\ UNCHANGED <<modalRest, items, modal>>

\* the documents the modal-click scrapeStore may be looking at: the three
\* selectors' matches for three named cards, for the same cards among cards
\* that give no item (one of them rendered twice), for one card, for none
ModalDoms ==
    Layouts(Block(1, 3)) \cup Layouts(Decorate(Block(1, 3)))
      \cup Layouts(Block(1, 1)) \cup Layouts(<<>>)

\* lines 125-134: the elements left in `cards` by the selector loop
MCards(dom) == dom[CardsSelector(dom, 1)]

\* lines 125-137: the selector loop and the choice between the card loop
\* and the text fallback
MSelect ==
    /\ pc = "m_select"
    /\ \/ \E dom \in ModalDoms :
            IF Len(MCards(dom)) > MinCards
            THEN /\ modal' = [modal EXCEPT !.count = Len(MCards(dom)),
                                           !.cardIndex = 1,
                                           !.dom = dom[WorkingSelector(dom)]]
                 /\ pc' = "m_card"
            ELSE /\ pc' = "m_fallback"
                 /\ UNCHANGED modal
       \/ /\ MToCatch
          /\ UNCHANGED modal
    /\ UNCHANGED <<modalRest, items, gate>>

\* lines 140-171: the loop test, the re-query (which may find the elements
\* of before or fewer of them), the card's read and the name taken from it
MCardRead ==
    /\ pc = "m_card"
    /\ IF modal.cardIndex > modal.count
       THEN /\ pc' = "m_done"
            /\ UNCHANGED modal
       ELSE \/ \E currentCards \in { modal.dom, Few(modal.dom) } :
                 IF modal.cardIndex > Len(currentCards)
                 THEN /\ pc' = "m_done"
                      /\ UNCHANGED modal
                 ELSE LET card == currentCards[modal.cardIndex]
                      IN  IF card.kind = "broken"
                          THEN /\ pc' = "m_cardCatch"
                               /\ UNCHANGED modal
                          ELSE IF card.kind # "named"
                          THEN /\ modal' = [modal EXCEPT !.cardIndex = @ + 1]
                               /\ pc' = "m_card"
                          ELSE /\ modal' = [modal EXCEPT !.name = card.name]
                               /\ pc' = "m_click"
            \/ /\ pc' = "m_cardCatch"
               /\ UNCHANGED modal
    /\ UNCHANGED <<modalRest, items, gate>>

\* lines 174-175: the click, after which a dialog is open or, when the
\* dialog never opens, is not; a click or a wait that throws
MClick ==
    /\ pc = "m_click"
    /\ \/ /\ modal' = [modal EXCEPT !.dialog = TRUE, !.opened = @ + 1]
          /\ pc' \in { "m_modalRead", "m_cardCatch" }
       \/ /\ UNCHANGED modal
          /\ pc' \in { "m_modalRead", "m_cardCatch" }
    /\ UNCHANGED <<modalRest, items, gate>>

\* lines 182-212: the wait for the dialog and the read of its text
MModalRead ==
    /\ pc = "m_modalRead"
    /\ pc' \in { "m_close", "m_modalCatch" }
    /\ UNCHANGED <<modalRest, items, gate, modal>>

\* lines 215-222: the close control is clicked when one is found, else
\* Escape is pressed; either closes an open dialog when it succeeds, and
\* may or may not have closed it when it throws
MClose ==
    /\ pc = "m_close"
    /\ \/ /\ modal' = [modal EXCEPT !.dialog = FALSE]
          /\ pc' \in { "m_push", "m_modalCatch" }
       \/ /\ UNCHANGED modal
          /\ pc' = "m_modalCatch"
    /\ UNCHANGED <<modalRest, items, gate>>

MModalCatchNoEscape ==
    /\ pc = "m_modalCatch"
    /\ pc' \in { "m_push", "m_cardCatch" }
    /\ UNCHANGED <<modalRest, items, gate, modal>>

\* lines 224-228: catch (modalError); a throw in it is caught at line 257
MModalCatch ==
    /\ pc = "m_modalCatch"
    /\ \/ /\ modal' = [modal EXCEPT !.dialog = FALSE]
          /\ pc' \in { "m_push", "m_cardCatch" }
       \/ /\ UNCHANGED modal
          /\ pc' = "m_cardCatch"
    /\ UNCHANGED <<modalRest, items, gate>>

\* lines 230-255: the item of the card is appended, the loop steps on
MPush ==
    /\ pc = "m_push"
    /\ items' = Append(items, [name |-> modal.name, store_name |-> store.name])
    /\ modal' = [modal EXCEPT !.cardIndex = @ + 1]
    /\ pc' = "m_card"
    /\ UNCHANGED <<modalRest, gate>>

\* lines 257-261: catch (cardError); a throw in it leaves the card loop for
\* the catch of line 302
MCardCatch ==
    /\ pc = "m_cardCatch"
    /\ \/ /\ modal' = [modal EXCEPT !.dialog = FALSE, !.cardIndex = @ + 1]
          /\ pc' = "m_card"
       \/ /\ modal' = [modal EXCEPT !.dialog = FALSE]
          /\ MToCatch
       \/ /\ UNCHANGED modal
          /\ MToCatch
    /\ UNCHANGED <<modalRest, items, gate>>

\* A line of the page text, by what lines 270-288 test on it: a line with a
\* brand and more than 5 characters (its text is numbered), a line with a
\* skip word, the line 'Size:', any other line; digitFirst says whether the
\* line starts with a digit
NameLine(n) == [kind |-> "name", name |-> n, digitFirst |-> FALSE]
DigitNameLine(n) == [kind |-> "name", name |-> n, digitFirst |-> TRUE]
SkipLine == [kind |-> "skip", name |-> 0, digitFirst |-> FALSE]
SizeLabel == [kind |-> "label", name |-> 0, digitFirst |-> FALSE]
DigitsLine == [kind |-> "other", name |-> 0, digitFirst |-> TRUE]
OtherLine == [kind |-> "other", name |-> 0, digitFirst |-> FALSE]

\* the page texts the fallback may read
FallbackTexts ==
    { <<>>,
      <<SkipLine, NameLine(1), SizeLabel, DigitsLine, NameLine(2), DigitsLine, OtherLine>>,
      <<NameLine(1), NameLine(2), NameLine(1)>>,
      <<NameLine(1), DigitNameLine(2), NameLine(3)>>,
      <<NameLine(1), SizeLabel>> }

\* lines 270-297: the line loop from index idx (1-based) on
RECURSIVE ParseLines(_, _, _, _)
ParseLines(lines, idx, storeName, acc) ==
    IF idx > Len(lines) THEN acc
    ELSE LET line == lines[idx]
             used == IF idx + 1 <= Len(lines) /\ lines[idx + 1].kind = "label"
                        /\ idx + 2 <= Len(lines)
                     THEN 2
                     ELSE IF idx + 1 <= Len(lines) /\ lines[idx + 1].digitFirst
                     THEN 1
                     ELSE 0
         IN  IF line.kind = "name"
             THEN ParseLines(lines, idx + used + 1, storeName,
                             Append(acc, [name |-> line.name, store_name |-> storeName]))
             ELSE ParseLines(lines, idx + 1, storeName, acc)

\* lines 263-298: the text fallback
MFallback ==
    /\ pc = "m_fallback"
    /\ \/ \E lines \in FallbackTexts :
            /\ items' = ParseLines(lines, 1, store.name, items)
            /\ pc' = "m_done"
       \/ /\ MToCatch
          /\ UNCHANGED items
    /\ UNCHANGED <<modalRest, gate, modal>>

\* line 300
MDone ==
    /\ pc = "m_done"
    /\ pc' = "m_return"
    /\ UNCHANGED <<modalRest, items, gate, modal>>

\* lines 302-304
MCatch ==
    /\ pc = "m_catch"
    /\ pc' = "m_return"
    /\ UNCHANGED <<modalRest, items, gate, modal>>

NextModal ==
    \/ MGoto \/ MHuman
    \/ MGateTest \/ MGateInspect \/ MGateHuman \/ MGateReload \/ MSettle
    \/ MSelect \/ MCardRead \/ MClick \/ MModalRead \/ MClose \/ MModalCatch
    \/ MPush \/ MCardCatch \/ MFallback \/ MDone \/ MCatch

SpecModal == InitModal /\ [][NextModal]_vars

(* ------------------------------------------------------------------ *)
(* Card text: strings as sequences of characters                       *)
(* ------------------------------------------------------------------ *)
UpperLetters ==
    <<"A", "B", "C", "D", "E", "F", "G", "H", "I", "J", "K", "L", "M",
      "N", "O", "P", "Q", "R", "S", "T", "U", "V", "W", "X", "Y", "Z">>
LowerLetters ==
    <<"a", "b", "c", "d", "e", "f", "g", "h", "i", "j", "k", "l", "m",
      "n", "o", "p", "q", "r", "s", "t", "u", "v", "w", "x", "y", "z">>
UpperSet == { UpperLetters[k] : k \in 1..26 }
LowerSet == { LowerLetters[k] : k \in 1..26 }
Digits == { "0", "1", "2", "3", "4", "5", "6", "7", "8", "9" }

\* the value null
null == <<>>

LetterIndex(letters, c) == CHOOSE k \in 1..26 : letters[k] = c

\* String.prototype.toLowerCase and toUpperCase
toLowerCase(str) ==
    [k \in 1..Len(str) |->
        IF str[k] \in UpperSet THEN LowerLetters[LetterIndex(UpperLetters, str[k])]
        ELSE str[k]]
toUpperCase(str) ==
    [k \in 1..Len(str) |->
        IF str[k] \in LowerSet THEN UpperLetters[LetterIndex(LowerLetters, str[k])]
        ELSE str[k]]

\* String.prototype.includes
includes(str, sub) ==
    \E p \in 1..(Len(str) - Len(sub) + 1) : SubSeq(str, p, p + Len(sub) - 1) = sub

\* line 74: the entries of the brand table that the card texts below can
\* contain, in the order they have in the table
brands ==
    << <<"N", "i", "k", "e">>,
       <<"J", "o", "r", "d", "a", "n">>,
       <<"A", "s", "i", "c", "s">>,
       <<"A", "S", "I", "C", "S">>,
       <<"D", "u", "n", "k">>,
       <<"A", "i", "r", " ", "J", "o", "r", "d", "a", "n">> >>

\* lines 177-184: the brand loop from entry k on
RECURSIVE BrandFromCaseSensitive(_, _)
BrandFromCaseSensitive(name, k) ==
    IF k > Len(brands) THEN null
    ELSE IF includes(name, brands[k]) THEN brands[k]
    ELSE BrandFromCaseSensitive(name, k + 1)

RECURSIVE BrandFrom(_, _)
BrandFrom(name, k) ==
    IF k > Len(brands) THEN null
    ELSE IF includes(toLowerCase(name), toLowerCase(brands[k])) THEN brands[k]
    ELSE BrandFrom(name, k + 1)

\* the regular expression classes \w and \s over the characters in use
IsWordChar(c) == c \in UpperSet \cup LowerSet \cup Digits \cup { "_" }
Whitespace == { " " }

\* \b in front of position p of text t
WordBoundary(t, p) ==
    LET before == p > 1 /\ IsWordChar(t[p - 1])
        after == p <= Len(t) /\ IsWordChar(t[p])
    IN  before # after

AllIn(t, from, to, class) ==
    to <= Len(t) /\ \A j \in from..to : t[j] \in class

\* the length of the run of digits that starts at position q
DigitsFrom(t, q) ==
    Cardinality({ e \in q..Len(t) : \A j \in q..e : t[j] \in Digits })

\* the end of the match of n letters and \d{4,}\b at position p, 0 if none:
\* the digits matched are the whole run, since \b holds nowhere inside it
ShortWith(t, p, n, letters) ==
    IF AllIn(t, p, p + n - 1, letters)
    THEN LET d == DigitsFrom(t, p + n)
         IN  IF d >= 4 /\ WordBoundary(t, p + n + d) THEN p + n + d - 1 ELSE 0
    ELSE 0

\* line 164: the end of the match of \b([A-Z]{1,2}\d{4,})\b at position p,
\* 0 if none, with `letters` for the class [A-Z]
ShortCodeEnd(t, p, letters) ==
    IF ~WordBoundary(t, p) THEN 0
    ELSE IF ShortWith(t, p, 2, letters) > 0 THEN ShortWith(t, p, 2, letters)
    ELSE ShortWith(t, p, 1, letters)

\* line 165: the end of the match of \b(\d{6}[-\s]?\d{3})\b at position p,
\* 0 if none
LongCodeEnd(t, p) ==
    IF ~(WordBoundary(t, p) /\ AllIn(t, p, p + 5, Digits)) THEN 0
    ELSE IF /\ p + 6 <= Len(t)
            /\ t[p + 6] \in { "-" } \cup Whitespace
            /\ AllIn(t, p + 7, p + 9, Digits)
            /\ WordBoundary(t, p + 10)
    THEN p + 9
    ELSE IF AllIn(t, p + 6, p + 8, Digits) /\ WordBoundary(t, p + 9) THEN p + 8
    ELSE 0

Least(S) == CHOOSE x \in S : \A y \in S : x <= y

\* lines 162-168 with `letters` for the class [A-Z]: the leftmost match of
\* the first expression, else the leftmost match of the second, upper-cased
SkuWith(text, letters) ==
    LET short == { p \in 1..Len(text) : ShortCodeEnd(text, p, letters) > 0 }
        long == { p \in 1..Len(text) : LongCodeEnd(text, p) > 0 }
    IN  IF short # {}
        THEN toUpperCase(SubSeq(text, Least(short), ShortCodeEnd(text, Least(short), letters)))
        ELSE IF long # {}
        THEN toUpperCase(SubSeq(text, Least(long), LongCodeEnd(text, Least(long))))
        ELSE null

\* lines 162-168
CardSku(text) == SkuWith(text, UpperSet)

\* the words a card text is made of
Words ==
    { <<"N", "i", "k", "e">>,
      <<"D", "u", "n", "k">>,
      <<"A", "i", "r">>,
      <<"J", "o", "r", "d", "a", "n">>,
      <<"A", "S", "I", "C", "S">>,
      <<"R", "e", "t", "r", "o">>,
      <<"A", "B", "1", "2", "3", "4">>,
      <<"a", "b", "1", "2", "3", "4">>,
      <<"A", "1", "2", "3">>,
      <<"A", "B", "C", "1", "2", "3", "4">>,
      <<"1", "2", "3", "4", "5", "6", "-", "7", "8", "9">>,
      <<"1", "2", "3", "4", "5", "6">>,
      <<"7", "8", "9">> }

\* most words in a card text
MaxWords == 3

RECURSIVE Join(_)
Join(words) ==
    IF Len(words) = 1 THEN words[1]
    ELSE Join(SubSeq(words, 1, Len(words) - 1)) \o <<" ">> \o words[Len(words)]

\* the card texts: one line of words
CardTexts ==
    UNION { { Join(w) : w \in [1..n -> Words] } : n \in 1..MaxWords }

(* ------------------------------------------------------------------ *)
(* extractItemsFromPage on its own: two calls on one rendered page     *)
(* ------------------------------------------------------------------ *)
\* most names a store's list holds before the page is extracted
MaxSeenBefore == 3

\* the store's list when names 1..n were extracted before
ItemsBefore(n) == [k \in 1..n |-> [name |-> k, store_name |-> 1]]

\* scrapeStore in the middle of a run, in front of a rendered page
InitExtract ==
    /\ pc = "x_extract"
    /\ \E n \in 0..MaxSeenBefore :
         /\ items = ItemsBefore(n)
         /\ seenNames = 1..n
         /\ \E dom \in Renderings(SmallStore(1), n) :
               probe = [kind |-> "extract", dom |-> dom, before |-> n, once |-> <<>>]
    /\ mode = "url"
    /\ stores = <<SmallStore(1)>>
    /\ jar = NoJar
    /\ stdout = <<>>
    /\ exitCode = -1
    /\ returned = <<>>
    /\ modal = NoModal
    /\ now = StartTime
    /\ browser = "open"
    /\ closeCount = 0
    /\ savedCookies = [kind |-> "null"]
    /\ ctxCookies = {}
    /\ i = 1
    /\ allItems = <<>>
    /\ cookiesSaved = FALSE
    /\ saveCount = 0
    /\ pending = FALSE
    /\ outcome = "running"
    /\ pageNum = 1
    /\ navLog = <<>>
    /\ pageLog = <<>>
    /\ statusLog = <<>>
    /\ errLog = {}
    /\ reportedPages = -1
    /\ gate = NoGate
    /\ lastNamed = 0

\* what a call of extractItemsFromPage and the push of its result leave alone
extractRest ==
    <<modal, orchVars, pageNum, navLog, pageLog, statusLog, errLog, reportedPages,
      gate, lastNamed>>

\* lines 239-240: the page is extracted and the result is pushed
XExtract ==
    /\ pc = "x_extract"
    /\ LET r == extractItemsFromPage(probe.dom, seenNames, store.name)
       IN  /\ items' = items \o r.pageItems
           /\ seenNames' = r.seenNames
    /\ probe' = [probe EXCEPT !.once = items']
    /\ pc' = "x_again"
    /\ UNCHANGED extractRest

\* lines 239-240 once more, the page rendering what it rendered before
XExtractAgain ==
    /\ pc = "x_again"
    /\ LET r == extractItemsFromPage(probe.dom, seenNames, store.name)
       IN  /\ items' = items \o r.pageItems
           /\ seenNames' = r.seenNames
    /\ pc' = "x_done"
    /\ UNCHANGED <<probe, extractRest>>

NextExtract == XExtract \/ XExtractAgain

SpecExtract == InitExtract /\ [][NextExtract]_vars

(* ------------------------------------------------------------------ *)
(* One card of extractItemsFromPage on its own                         *)
(* ------------------------------------------------------------------ *)
\* extractItemsFromPage in front of a card whose text is one of CardTexts
InitCard ==
    /\ pc = "c_read"
    /\ \E text \in CardTexts :
          probe = [kind |-> "card", text |-> text, result |-> "unread",
                   name |-> null, sku |-> null, brand |-> null]
    /\ items = <<>>
    /\ seenNames = {}
    /\ mode = "url"
    /\ stores = <<SmallStore(1)>>
    /\ jar = NoJar
    /\ stdout = <<>>
    /\ exitCode = -1
    /\ returned = <<>>
    /\ modal = NoModal
    /\ now = StartTime
    /\ browser = "open"
    /\ closeCount = 0
    /\ savedCookies = [kind |-> "null"]
    /\ ctxCookies = {}
    /\ i = 1
    /\ allItems = <<>>
    /\ cookiesSaved = FALSE
    /\ saveCount = 0
    /\ pending = FALSE
    /\ outcome = "running"
    /\ pageNum = 1
    /\ navLog = <<>>
    /\ pageLog = <<>>
    /\ statusLog = <<>>
    /\ errLog = {}
    /\ reportedPages = -1
    /\ gate = NoGate
    /\ lastNamed = 0

\* lines 148-156: the first line longer than 5 characters that has a letter;
\* the card texts have one line
CardName(text) ==
    IF Len(text) > 5 /\ \E k \in 1..Len(text) : text[k] \in UpperSet \cup LowerSet
    THEN text
    ELSE null

\* lines 146-195: the card's text gives no item, or an item with the name,
\* the sku and the brand taken from it
ReadCard ==
    /\ pc = "c_read"
    /\ IF Len(probe.text) < 5 \/ CardName(probe.text) = null
       THEN probe' = [probe EXCEPT !.result = "skipped"]
       ELSE probe' = [probe EXCEPT !.result = "item",
                                   !.name = CardName(probe.text),
                                   !.sku = CardSku(probe.text),
                                   !.brand = BrandFrom(CardName(probe.text), 1)]
    /\ pc' = "c_done"
    /\ UNCHANGED <<items, seenNames, extractRest>>

NextCard == ReadCard

SpecCard == InitCard /\ [][NextCard]_vars

Next ==
    \/ Main \/ Authenticate \/ MainEnd
    \/ Launch \/ NewContext \/ LoadCookies \/ AddCookies \/ AddInitScript \/ NewPage
    \/ ForTest \/ StoreReturned \/ ContextCookies \/ SaveCookies \/ Pace \/ Close
    \/ ScrapeStoreStart \/ WhileTest \/ Goto \/ HumanBehavior \/ Settle
    \/ GateTest \/ GateInspect \/ GateHuman \/ GateReload \/ PostGate
    \/ Extract \/ Delay \/ Complete \/ Catch

Spec == Init /\ [][Next]_vars

\* every awaited operation eventually returns or throws, and the code
\* between two awaits runs: a step that can be taken is eventually taken
LiveSpec == LiveInit /\ [][Next]_vars /\ WF_vars(Next)

TypeOK ==
    /\ browser \in { "none", "open", "closed" }
    /\ outcome \in { "running", "returned", "threw" }
    /\ pageNum \in 1..(maxPages + 1)
    /\ gate.attempts \in 0..maxAttempts

(* ------------------------------------------------------------------ *)
(* Properties                                                          *)
(* ------------------------------------------------------------------ *)
Names(list) == { list[k].name : k \in 1..Len(list) }

\* C1: at every point of a store run, and in the list scrapeStore returns,
\* no two items of the store's list have the same name.
C1_NoDuplicateNames ==
    Cardinality(Names(items)) = Len(items)

\* C1 witness: after an earlier page gave items, a page whose cards repeated
\* names (more named cards read than items kept) has just been extracted
\* and has added items.
C1_Witness ==
    /\ Len(pageLog) >= 2
    /\ pageLog[1].found > 0
    /\ pageLog[Len(pageLog)].found > 0
    /\ lastNamed > pageLog[Len(pageLog)].found

\* C2: when scrapeMultipleStores has ended after launching the browser,
\* browser.close() has been called exactly once.
C2_ClosedExactlyOnce ==
    (pc = "done" /\ browser # "none") => closeCount = 1

\* C3: once a page's extraction has yielded zero items or added zero new
\* items, scrapeStore makes no further navigation for that store.
C3_NoNavigationAfterEmptyPage ==
    \A k \in 1..Len(pageLog) :
        (pageLog[k].found = 0 \/ pageLog[k].new = 0) => Len(navLog) = pageLog[k].navs

\* C3 witness: a store run has ended after a page that added nothing, with
\* items gathered from the pages before it.
C3_Witness ==
    /\ pc = "return"
    /\ Len(pageLog) >= 2
    /\ pageLog[Len(pageLog)].new = 0
    /\ Len(items) > 0

\* C4: the gate reads the page text at most 12 times; every reading that
\* shows neither signal ends it with pass; it ends with fail only after 12
\* readings that all showed a signal, and always does so then.
C4_GateBound ==
    /\ gate.inspections <= maxAttempts
    /\ (gate.result = "none" /\ pc # "catch")
          => gate.inspections = gate.verifying + gate.failed
    /\ gate.result = "pass"
          => gate.inspections = gate.verifying + gate.failed + 1
    /\ gate.result = "fail"
          => /\ gate.inspections = maxAttempts
             /\ gate.verifying + gate.failed = maxAttempts
    /\ (gate.verifying + gate.failed = maxAttempts /\ pc = "complete")
          => gate.result = "fail"

\* C4 witness: the gate passed at its third reading after two still-verifying
\* readings, and page 1 was then extracted and gave items.
C4_Witness ==
    /\ gate.result = "pass"
    /\ gate.verifying = 2
    /\ gate.failed = 0
    /\ gate.inspections = 3
    /\ Len(pageLog) = 1
    /\ pageLog[1].page = 1
    /\ pageLog[1].found > 0

\* C5: after the gate has failed on page 1, scrapeStore has run no
\* extraction, has navigated to page 1 only, returns an empty list and has
\* logged the security-check error; the orchestrator takes the empty list,
\* skips the cookie save and moves on to the next store (or leaves the loop
\* after the last one) unless the pacing wait itself throws.
C5_GateFailureEndsStore ==
    /\ []( "security" \in errLog
             => /\ pageLog = <<>>
                /\ navLog = <<1>>
                /\ items = <<>>
                /\ pc \notin { "cookies", "saveCookies", "catch" } )
    /\ [][ ("security" \in errLog /\ pc = "return")
             => (pc' = "pace" /\ allItems' = allItems /\ outcome' = "running") ]_vars
    /\ [][ ("security" \in errLog /\ pc = "pace")
             => (pending' \/ (pc' = "forTest" /\ i' = i + 1)) ]_vars
    /\ [][ ("security" \in errLog /\ pc = "forTest" /\ i <= Len(stores))
             => pc' = "scrapeStore" ]_vars

\* C5 witness: the second store's scrape is about to start after the first
\* store's gate failed.
C5_Witness ==
    /\ "security" \in errLog
    /\ pc = "scrapeStore"
    /\ i = 2
    /\ allItems = <<>>

\* C6: loadCookies returns the persisted cookies exactly when the cookie
\* file exists and is strictly less than 50 minutes old, and null otherwise.
C6_FreshJarOnly ==
    pc \in { "addCookies", "addInitScript" }
      => LET fresh == jar.kind = "jar" /\ now - jar.timestamp < 50 * 60 * 1000
         IN  /\ fresh => savedCookies = [kind |-> "cookies", cookies |-> jar.cookies]
             /\ ~fresh => savedCookies = [kind |-> "null"]

\* C6 witness: a jar aged exactly 50 minutes has been loaded as absent.
C6_Witness ==
    /\ pc = "addInitScript"
    /\ jar.kind = "jar"
    /\ now - jar.timestamp = 50 * 60 * 1000
    /\ savedCookies.kind = "null"

\* C7: loading a cookie file that exists but cannot be parsed treats it as
\* absent: the run goes on without saved cookies.
C7_CorruptJarTreatedAsAbsent ==
    [][ (pc = "loadCookies" /\ jar.kind = "corrupt")
          => (pc' = "addInitScript" /\ savedCookies'.kind = "null" /\ outcome' = "running") ]_vars

\* C8: the cookie file is written at most once in a run, and in a run of
\* scrapeMultipleStores (any mode but the manual one) the write comes
\* right after scrapeStore returned the first non-empty list of the run
\* (every list before it was empty), such a return always leads to the
\* cookie snapshot, and the file changes at no other step.
C8_CookiesSavedOnce ==
    /\ [](saveCount <= 1)
    /\ []((allItems = <<>> /\ mode # "auth") => saveCount = 0)
    /\ [][ (saveCount' # saveCount /\ mode # "auth")
             => /\ pc = "saveCookies"
                /\ Len(items) > 0
                /\ allItems = items ]_vars
    /\ [][ (pc = "return" /\ Len(items) > 0 /\ allItems = <<>>) => pc' = "cookies" ]_vars
    /\ [][ pc' = "cookies" => (pc = "return" /\ Len(items) > 0 /\ allItems = <<>>) ]_vars
    /\ [][ jar' # jar => saveCount' = saveCount + 1 ]_vars

\* C8 witness: the jar was written after the second store, the first one
\* having returned nothing, and the run went on.
C8_Witness ==
    /\ saveCount = 1
    /\ cookiesSaved
    /\ i = 2
    /\ pc = "pace"
    /\ Len(allItems) > 0
    /\ \A k \in 1..Len(allItems) : allItems[k].store_name = 2

\* C9: a store whose pages 1, 2 and 3 yield 25, 25 and 10 new items has had
\* exactly pages 1 to 3 loaded, returns 60 items and reports 3 pages in its
\* final progress line.
C9_ThreePagesReported ==
    ( /\ pc = "return"
      /\ Len(pageLog) = 3
      /\ pageLog[1].new = 25 /\ pageLog[2].new = 25 /\ pageLog[3].new = 10 )
      => /\ navLog = <<1, 2, 3>>
         /\ Len(items) = 60
         /\ reportedPages = 3

\* C10: the pages a scrapeStore call navigates to are 1, 2, 3, ... in this
\* order, none skipped or repeated, and none above 50.
C10_PagesInOrder ==
    /\ \A k \in 1..Len(navLog) : navLog[k] = k
    /\ Len(navLog) <= 50

\* C10 witness: a store run has navigated to page 50 and extracted it.
C10_Witness ==
    /\ Len(navLog) = 50
    /\ Len(pageLog) = 50
    /\ pageNum = 51

\* the program positions inside scrapeStore
StorePcs ==
    { "scrapeStore", "while", "goto", "humanBehavior", "settle", "gateTest",
      "gateInspect", "gateHuman", "gateReload", "postGate", "extract", "delay",
      "complete", "catch" }

RECURSIVE Flatten(_)
Flatten(lists) ==
    IF lists = <<>> THEN <<>>
    ELSE Flatten(SubSeq(lists, 1, Len(lists) - 1)) \o lists[Len(lists)].items

\* C11: a scrapeStore call runs only when every earlier store's call has
\* returned, the calls follow the store list, and allItems (the array
\* scrapeMultipleStores returns) is the lists the calls returned, joined in
\* store order, each list as returned.
C11_StoreOrder ==
    /\ pc \in StorePcs => Len(returned) = i - 1
    /\ \A k \in 1..Len(returned) : returned[k].store = stores[k].name
    /\ allItems = Flatten(returned)
    /\ \A k \in 1..(Len(allItems) - 1) :
          allItems[k].store_name <= allItems[k + 1].store_name
    /\ outcome = "returned" => Len(returned) = Len(stores)

\* C11 witness: a run over two stores has returned with items of both.
C11_Witness ==
    /\ outcome = "returned"
    /\ Len(stores) = 2
    /\ Len(returned) = 2
    /\ Len(returned[1].items) > 0
    /\ Len(returned[2].items) > 0

\* C12: when the navigation to a page fails, that page is the last one
\* attempted and is not extracted, the items gathered before stay as they
\* are up to the return, and the orchestrator takes them and carries on.
C12_NavigationFailureEndsStore ==
    /\ []( "navigation" \in errLog
             => /\ Len(navLog) = Len(pageLog) + 1
                /\ pc \notin { "goto", "humanBehavior", "settle", "extract", "catch" } )
    /\ [][ ("navigation" \in errLog' /\ errLog' # errLog)
             => (pc = "goto" /\ pc' = "complete" /\ items' = items) ]_vars
    /\ [][ ("navigation" \in errLog /\ "navigation" \in errLog') => items' = items ]_vars
    /\ [][ ("navigation" \in errLog /\ pc = "return")
             => /\ allItems' = allItems \o items
                /\ pc' \in { "cookies", "pace" }
                /\ outcome' = "running" ]_vars

\* C12 witness: the second store's scrape is about to start after the first
\* store's navigation to page 2 failed; the items of its page 1 were kept.
C12_Witness ==
    /\ "navigation" \in errLog
    /\ pc = "scrapeStore"
    /\ i = 2
    /\ Len(navLog) = 2
    /\ Len(items) > 0
    /\ allItems = items

\* C13: no step of scrapeStore ends the run or leaves an exception in
\* flight: a throw leads to the catch block, which returns the items
\* gathered so far, and the orchestrator takes them and carries on.
C13_StoreErrorsCaught ==
    /\ [][ (pc \in StorePcs)
             => /\ pc' \in StorePcs \cup { "return" }
                /\ outcome' = "running"
                /\ pending' = FALSE ]_vars
    /\ [][ (pc = "catch") => (pc' = "return" /\ items' = items) ]_vars
    /\ [][ ("caught" \in errLog /\ pc = "return")
             => /\ allItems' = allItems \o items
                /\ pc' \in { "cookies", "pace" }
                /\ outcome' = "running" ]_vars

\* C13 witness: the second store's scrape is about to start after an error
\* was caught in the first store's, whose items were kept.
C13_Witness ==
    /\ "caught" \in errLog
    /\ pc = "scrapeStore"
    /\ i = 2
    /\ Len(items) > 0
    /\ allItems = items

\* C14: a scrapeStore call that returns has written exactly one
\* phase=complete status, as its last status, with current and total equal
\* to the number of items it returns.
C14_OneCompleteStatus ==
    pc = "return"
      => /\ Len(statusLog) >= 1
         /\ statusLog[Len(statusLog)] = Status("complete", Len(items), Len(items))
         /\ \A k \in 1..(Len(statusLog) - 1) : statusLog[k].phase = "loading"

\* C15: humanBehavior never fails its caller: whatever happens inside it,
\* scrapeStore goes on to the settle wait of the current page.
C15_HumanBehaviorNeverFails ==
    [][ (pc = "humanBehavior") => pc' = "settle" ]_vars

\* C20: the item array is written to standard output at most once, only
\* when scrapeMultipleStores has returned (every store scraped, the browser
\* closed), it is written in every run that exits with status 0 outside the
\* manual mode, and never in a run that exits with status 1 or in the manual
\* mode.
C20_OutputOnce ==
    /\ Len(stdout) <= 1
    /\ stdout # <<>>
          => /\ stdout[1] = allItems
             /\ outcome = "returned"
             /\ Len(returned) = Len(stores)
             /\ browser = "closed"
             /\ closeCount = 1
             /\ exitCode = 0
             /\ mode \notin { "auth", "allNoConfig" }
    /\ (pc = "exited" /\ exitCode = 1) => stdout = <<>>
    /\ mode = "auth" => stdout = <<>>
    /\ (pc = "exited" /\ exitCode = 0 /\ mode # "auth") => Len(stdout) = 1

\* C20 witness: a run over two stores has written its items and exited.
C20_Witness ==
    /\ pc = "exited"
    /\ Len(stores) = 2
    /\ Len(stdout) = 1
    /\ Len(stdout[1]) > 0

\* the program positions of the modal-click scrapeStore from its selector
\* loop to the end of its extraction
ModalExtractionPcs ==
    { "m_select", "m_card", "m_click", "m_modalRead", "m_close", "m_modalCatch",
      "m_push", "m_cardCatch", "m_fallback" }

\* C16: a failure on one card never ends the card loop of the modal-click
\* scrapeStore: from the handler of a card's failure the loop always goes on
\* to the next card, with the items collected so far.
C16_CardFailureContinues ==
    [][ (pc = "m_cardCatch") => (pc' = "m_card" /\ items' = items) ]_vars

\* C17: when a card is clicked no dialog is open, given that a close-control
\* click or an Escape press that succeeds closes the open dialog.
C17_NoOpenDialogAtClick ==
    pc = "m_click" => ~modal.dialog

\* C17 witness: a card is about to be clicked after a dialog was opened for
\* an earlier card and that card's item was kept.
C17_Witness ==
    /\ pc = "m_click"
    /\ modal.opened >= 1
    /\ Len(items) >= 1
    /\ modal.cardIndex > 1

\* C18: when all 12 checks of the gate read a verification text, the
\* modal-click scrapeStore runs neither the card loop nor the text fallback
\* and returns no item.
C18_StuckGateYieldsNothing ==
    modal.stuck => (pc \notin ModalExtractionPcs /\ items = <<>>)

\* C19: the items of the modal-click scrapeStore never hold a name twice.
C19_ModalNoDuplicateNames ==
    Cardinality(Names(items)) = Len(items)

\* C21: a run that an error escaping scrapeMultipleStores aborts after at
\* least one store's scrape returned still writes the items of the stores
\* that returned to standard output.
C21_PartialResultsEmitted ==
    (pc = "exited" /\ mode # "auth" /\ outcome = "threw" /\ Len(returned) >= 1)
      => stdout = <<allItems>>

\* C22: the process exits with status 1 exactly when --all finds no
\* stores.json or an error escaped main, and with status 0 otherwise; when
\* stores.json is missing no browser was launched and nothing was written to
\* standard output.
C22_ExitStatus ==
    /\ exitCode \in { -1, 0, 1 }
    /\ (pc = "exited") <=> (exitCode # -1)
    /\ pc = "exited"
          => (exitCode = 1) <=> (mode = "allNoConfig" \/ outcome = "threw")
    /\ mode = "allNoConfig"
          => /\ pc \in { "main", "exited" }
             /\ browser = "none"
             /\ closeCount = 0
             /\ stdout = <<>>

\* C22 witness: --all without a stores.json has ended the process.
C22_Witness ==
    /\ pc = "exited"
    /\ mode = "allNoConfig"
    /\ exitCode = 1

\* the numbers of new items that make a page a partial one
PartialCounts == 1..(FullPage - 1)

\* C23: a page after the first that adds 1 to 19 new items ends the
\* pagination with the items appended and no further navigation; a first
\* page that adds 1 to 19 items does not: the page number steps to 2, and a
\* call that returns without a caught error has navigated to page 2.
C23_PartialPageStops ==
    /\ [][ (pc = "extract" /\ pc' # "catch"
              /\ (Len(items') - Len(items)) \in PartialCounts)
             => IF pageNum > 1
                THEN /\ pc' = "complete"
                     /\ pageNum' = pageNum
                     /\ SubSeq(items', 1, Len(items)) = items
                ELSE /\ pc' = "delay"
                     /\ pageNum' = 2 ]_vars
    /\ [](\A k \in 1..Len(pageLog) :
            (pageLog[k].page > 1 /\ pageLog[k].new \in PartialCounts)
              => /\ k = Len(pageLog)
                 /\ Len(navLog) = pageLog[k].navs
                 /\ pc \notin (StorePcs \ { "complete", "scrapeStore" }))
    /\ []((pc = "return" /\ "caught" \notin errLog /\ Len(pageLog) >= 1
             /\ pageLog[1].new \in PartialCounts)
            => Len(navLog) >= 2)

\* C23 witness: pagination has stopped on a second page with 1 to 19 new
\* items, after a first page with 1 to 19 items.
C23_Witness ==
    /\ pc = "complete"
    /\ Len(pageLog) = 2
    /\ pageLog[1].new \in PartialCounts
    /\ pageLog[2].new \in PartialCounts
    /\ Len(items) = pageLog[1].new + pageLog[2].new

\* C28: in waitForSecurityCheck (gate.verifying counts the inspections that
\* read a still-verifying text, with or without a failure text beside it,
\* gate.failed those that read a failure text only) every still-verifying
\* inspection is followed by one humanBehavior call and no reload, every
\* failure inspection by one reload (none if the wait before it throws) and
\* no humanBehavior call, both count as attempts, at most 12 in all, and
\* nothing of the gate changes once it has passed.
C28_GateReactions ==
    /\ [](/\ gate.attempts <= maxAttempts
          /\ pc \in { "gateTest", "gateInspect" }
                => /\ gate.humans = gate.verifying
                   /\ gate.reloads = gate.failed
                   /\ gate.attempts = gate.verifying + gate.failed
          /\ pc = "gateHuman"
                => /\ gate.humans = gate.verifying - 1
                   /\ gate.reloads = gate.failed
          /\ pc = "gateReload"
                => /\ gate.humans = gate.verifying
                   /\ gate.reloads = gate.failed - 1
          /\ gate.result = "pass"
                => /\ gate.humans = gate.verifying
                   /\ gate.reloads = gate.failed)
    /\ [][ (pc = "gateHuman")
             => /\ gate'.humans = gate.humans + 1
                /\ gate'.reloads = gate.reloads ]_vars
    /\ [][ (pc = "gateReload")
             => /\ gate'.humans = gate.humans
                /\ gate'.reloads \in { gate.reloads, gate.reloads + 1 }
                /\ pc' = "gateTest" => gate'.reloads = gate.reloads + 1 ]_vars
    /\ [][ (gate.result = "pass" /\ gate'.result = "pass") => gate' = gate ]_vars

\* C28 witness: the gate has used its 12 attempts on inspections of both
\* kinds.
C28_Witness ==
    /\ pc = "gateTest"
    /\ gate.attempts = maxAttempts
    /\ gate.humans >= 1
    /\ gate.reloads >= 1
    /\ gate.humans + gate.reloads = maxAttempts

\* C29: in scrapeStore the set of seen names is the set of the names of the
\* store's items, at the start and after every page extraction.
C29_SeenNamesAreItemNames ==
    seenNames = Names(items)

\* C29 witness: two pages were extracted and the second one showed a card
\* whose name had been seen.
C29_Witness ==
    /\ pc \in { "delay", "complete" }
    /\ Len(pageLog) = 2
    /\ pageLog[2].new >= 1
    /\ lastNamed > pageLog[2].new
    /\ Cardinality(seenNames) = pageLog[1].new + pageLog[2].new

\* C30: on every page the number of items added to the store's list is the
\* number of items extractItemsFromPage returned, and pagination stops after
\* a page exactly when that number is 0, or under 20 on a page after the
\* first.
C30_NewEqualsExtracted ==
    /\ [](\A k \in 1..Len(pageLog) : pageLog[k].new = pageLog[k].found)
    /\ [][ (pc = "extract" /\ pc' # "catch")
             => LET entry == pageLog'[Len(pageLog')]
                IN  /\ Len(pageLog') = Len(pageLog) + 1
                    /\ entry.new = Len(items') - Len(items)
                    /\ entry.found = entry.new
                    /\ (pc' = "complete")
                         <=> (entry.new = 0 \/ (entry.new < FullPage /\ pageNum > 1)) ]_vars

\* C30 witness: a page after the first showed cards with names, all of them
\* seen before: nothing was extracted, nothing was added, pagination stopped.
C30_Witness ==
    /\ pc = "complete"
    /\ Len(pageLog) >= 2
    /\ pageLog[Len(pageLog)].found = 0
    /\ pageLog[Len(pageLog)].new = 0
    /\ lastNamed > 0

\* C24: when extractItemsFromPage reads card elements, some selector matched
\* more than 2 elements and the elements read are the matches of the first
\* such selector.
C24_ReadsFirstMatchingSelector ==
    (probe.kind = "extract" /\ pc # "x_extract" /\ Len(ReadCards(probe.dom)) > 0)
      => \E k \in 1..NumSelectors :
            /\ Len(probe.dom[k]) > MinCards
            /\ \A j \in 1..(k - 1) : Len(probe.dom[j]) <= MinCards
            /\ ReadCards(probe.dom) = probe.dom[k]

\* C27: extracting a rendered page a second time adds nothing: the store's
\* list and the seen names are what the first extraction left.
C27_ExtractionIdempotent ==
    /\ [](pc = "x_done" => items = probe.once)
    /\ [][ (pc = "x_again") => (items' = items /\ seenNames' = seenNames) ]_vars

\* C27 witness: the page was extracted twice and the first extraction added
\* items to a list that already held some.
C27_Witness ==
    /\ pc = "x_done"
    /\ probe.before > 0
    /\ Len(probe.once) > probe.before
    /\ Len(items) = Len(probe.once)

\* the table entries that are case-insensitive substrings of name
BrandHits(name) ==
    { k \in 1..Len(brands) : includes(toLowerCase(name), toLowerCase(brands[k])) }

\* an item was made from the card under examination
CardGaveItem == probe.kind = "card" /\ probe.result = "item"

\* C25 as stated: the brand of an item is the earliest table entry that is a
\* case-insensitive substring of its name, null if and only if there is
\* none, and it equals every table entry the name contains.
C25_BrandEqualsContainedBrand ==
    CardGaveItem
      => /\ (probe.brand = null) <=> (BrandHits(probe.name) = {})
         /\ BrandHits(probe.name) # {}
               => probe.brand = brands[Least(BrandHits(probe.name))]
         /\ \A k \in BrandHits(probe.name) : probe.brand = brands[k]

\* C25 amended: the brand of an item is the earliest table entry that is a
\* case-insensitive substring of its name, null if and only if there is
\* none; it equals a table entry the name contains when no earlier entry is
\* contained too.
C25_BrandIsEarliestMatch ==
    CardGaveItem
      => /\ (probe.brand = null) <=> (BrandHits(probe.name) = {})
         /\ BrandHits(probe.name) # {}
               => probe.brand = brands[Least(BrandHits(probe.name))]
         /\ \A k \in BrandHits(probe.name) :
               (\A j \in 1..(k - 1) : j \notin BrandHits(probe.name))
                  => probe.brand = brands[k]

\* C25 witness: an item whose name contains several table entries has the
\* earliest of them as its brand.
C25_Witness ==
    /\ CardGaveItem
    /\ Cardinality(BrandHits(probe.name)) >= 2
    /\ probe.brand = brands[Least(BrandHits(probe.name))]
    /\ \E k \in BrandHits(probe.name) : brands[k] # probe.brand

\* C26: the sku of an item is the first short code of the card text (1 or 2
\* letters, at least 4 digits, a whole word) if there is one, else the first
\* long code (6 digits, optional dash or space, 3 digits), else null,
\* upper-cased.
C26_SkuFirstShortElseLong ==
    CardGaveItem => probe.sku = SkuWith(probe.text, UpperSet \cup LowerSet)

\* C31: a call of scrapeStore navigates to at most 50 pages and inspects the
\* gate at most 12 times, and every run reaches the exit of the process,
\* which it does only after every call of scrapeStore it started has
\* returned and its call of scrapeMultipleStores has ended, by return or
\* throw.
C31_Terminates ==
    /\ [](Len(navLog) <= maxPages /\ gate.inspections <= maxAttempts)
    /\ <>(pc = "exited")

\* C31 witness: the process has exited after a scrape that navigated to 50
\* pages of one store.
C31_Witness ==
    /\ pc = "exited"
    /\ outcome = "returned"
    /\ Len(navLog) = maxPages
    /\ Len(returned) = 1

====
